---- MODULE Spec2Model ----
(***************************************************************************)
(* Session client of the web application: the AuthProvider of              *)
(* apps/web/contexts/auth.context.tsx (AuthStore, status-check effect,     *)
(* route-guard effect, logout), the route handlers /api/auth/logout and    *)
(* /api/auth/status, and the server actions login / logout /               *)
(* checkAuthStatus, around one browser cookie jar.                         *)
(*                                                                         *)
(* A path is the sequence of its tokens: "/" is <<"/">>, "/login" is       *)
(* <<"/", "login">>, "/login/sso" is <<"/", "login", "/", "sso">>, so that *)
(* string concatenation and startsWith keep their meaning.                 *)
(*                                                                         *)
(* The backend's authentication core (Token Codec, Revocation Store, Auth  *)
(* Service) is a second state machine, BackendSpec, over its own           *)
(* variables. RegisterSpec follows the RegisterForm, TeardownSpec the      *)
(* status effect up to and after the provider's unmount, and ServerSpec    *)
(* the server-side pages, the permission check and the logout route        *)
(* handler of src/unnamed/part_011.                                        *)
(***************************************************************************)
EXTENDS Integers, Sequences, FiniteSets, TLC

\* Bound: status checks that may be in flight at the same time.
MaxChecks == 2

RootPath == <<"/">>
LoginPath == <<"/", "login">>
RegisterPath == <<"/", "register">>
ProfilePath == <<"/", "profile">>
LoginSubPath == <<"/", "login", "/", "sso">>

\* The routes a tab is followed on: "/" (public by equality), /login
\* (public, holds the LoginForm), /login/sso (public by prefix) and /profile
\* (protected). /register behaves as "/" and /users as /profile.
Paths == {RootPath, LoginPath, ProfilePath, LoginSubPath}

\* No router.push is waiting to be committed.
NoNav == <<>>

VARIABLES
    cookie,       \* the auth-token cookie is present in the browser
    tokenValid,   \* the cookie's token is still accepted by the backend
    authState,    \* AuthStore.state, the provider's isAuthenticated
    optimistic,   \* useOptimistic holds the optimistic value false
    pathname,     \* usePathname()
    navPending,   \* target of the last router.push / redirect not yet committed
    checks,       \* status checks in flight, oldest first
    logoutPc,     \* position of AuthProvider.logout: "idle", "sent", "served"
    logoutOk,     \* response.ok of the served logout request
    loginSuccess, \* LoginForm: state.success of a submission not yet handled
    last,         \* what the last step did (history)
    tracking,     \* history: the checks in flight record being overtaken
    now,          \* backend: the clock
    store,        \* backend: the Revocation Store, entries [id, exp]
    lock,         \* backend: the request holding the store's lock
    cleanAt,      \* backend: the now of the cleanup in progress, or NoCleanup
    keep,         \* backend: the entries the cleanup in progress keeps
    returned,     \* backend history: tokens for which revoke has returned
    reply,        \* backend history: the last answer of the Auth Service
    mounted,      \* the AuthProvider is mounted (its effects run)
    timers,       \* interval timers of the status effect that are active
    registerState,\* RegisterForm: the state a submission returned, not yet handled
    render        \* the last server-side render or handler run (history)

\* What the steps of the session client outside teardown, effect re-runs,
\* the RegisterForm and the server-side pages leave alone.
pageVars == <<mounted, timers, registerState, render>>

clientVars == <<cookie, tokenValid, authState, optimistic, pathname,
                navPending, checks, logoutPc, logoutOk, loginSuccess, last,
                tracking, mounted, timers, registerState, render>>

backendVars == <<now, store, lock, cleanAt, keep, returned, reply>>

vars == <<cookie, tokenValid, authState, optimistic, pathname, navPending,
          checks, logoutPc, logoutOk, loginSuccess, last, tracking,
          now, store, lock, cleanAt, keep, returned, reply,
          mounted, timers, registerState, render>>

----------------------------------------------------------------------------
\* Pure helpers

\* String.prototype.startsWith on token sequences.
StartsWith(s, prefix) ==
    /\ Len(prefix) <= Len(s)
    /\ SubSeq(s, 1, Len(prefix)) = prefix

publicRoutes == {LoginPath, RegisterPath, RootPath}

\* Mutant of IsPublicRoute: the prefix test without the trailing "/".
IsPublicRouteNoSlash(p) ==
    \E route \in publicRoutes : p = route \/ StartsWith(p, route)

\* publicRoutes.some(route => pathname === route || pathname.startsWith(`${route}/`))
IsPublicRoute(p) ==
    \E route \in publicRoutes :
        p = route \/ StartsWith(p, Append(route, "/"))

\* The isAuthenticated the context exposes: optimisticAuth.
ContextIsAuthenticated == IF optimistic THEN FALSE ELSE authState

\* useTransition's isPending: some async action of the provider is running.
IsPending == logoutPc # "idle" \/ Len(checks) > 0

\* Mutant of SetState: the store never takes the new state.
SetStateKeeps(state, newState) == state

\* AuthStore.setState: the state becomes newState (listeners fire on change).
SetState(state, newState) == IF state # newState THEN newState ELSE state

\* A status check as started by the effect or the interval callback, with
\* what its closure reads later: the flag, and (interval callback only)
\* whether the pathname it holds is in the allow-list.
NewCheck(auth, path, periodic) ==
    [captured |-> auth, isPublicRoute |-> periodic /\ IsPublicRoute(path),
     periodic |-> periodic,
     served |-> FALSE, answer |-> FALSE, stale |-> FALSE]

\* Remove the i-th element of a sequence.
RemoveAt(s, i) == SubSeq(s, 1, i - 1) \o SubSeq(s, i + 1, Len(s))

\* Every check of cs has been overtaken by a more recent state change.
MarkStale(cs) ==
    IF tracking
    THEN [k \in 1..Len(cs) |-> [cs[k] EXCEPT !.stale = TRUE]]
    ELSE cs

\* The checks before position i have been overtaken.
MarkStaleBefore(cs, i) ==
    IF tracking
    THEN [k \in 1..Len(cs) |->
             IF k < i THEN [cs[k] EXCEPT !.stale = TRUE] ELSE cs[k]]
    ELSE cs

\* The status effect re-runs when isAuthenticated or pathname changed: it
\* starts the first-load check (the interval is re-created).
EffectChecks(a0, p0, a1, p1, cs) ==
    IF mounted /\ (a1 # a0 \/ p1 # p0)
    THEN Append(cs, NewCheck(a1, p1, FALSE))
    ELSE cs

\* setInterval: one more timer is active.
SetInterval(t) == t + 1

\* clearInterval(interval): the timer of the effect's last run is gone.
ClearInterval(t) == IF t > 0 THEN t - 1 ELSE 0

\* Mutant of EffectTimers: the effect has no cleanup function.
EffectTimersNoCleanup(a0, p0, a1, p1, t) ==
    IF mounted /\ (a1 # a0 \/ p1 # p0)
    THEN SetInterval(t)
    ELSE t

\* The same re-run of the status effect: React runs the cleanup of the last
\* run (clearInterval), then the effect sets its interval again.
EffectTimers(a0, p0, a1, p1, t) ==
    IF mounted /\ (a1 # a0 \/ p1 # p0)
    THEN SetInterval(ClearInterval(t))
    ELSE t

\* The route-guard effect re-runs on the same changes and pushes /login
\* when the flag is false on a route outside the allow-list.
GuardFires(a0, p0, a1, p1) ==
    /\ mounted
    /\ a1 # a0 \/ p1 # p0
    /\ ~a1
    /\ ~IsPublicRoute(p1)

\* History of a step: the handler that ran (op), whether its backend call
\* threw (threw) and whether the route-guard effect pushed /login (guard).
NoLast == [op |-> "other", threw |-> FALSE, guard |-> FALSE]

\* The users the backend knows, as readUserMe returns them.
UserIds == {"u1", "u2"}
Roles == {"admin", "user", "guest"}
Users == [id : UserIds, role : Roles, is_superuser : BOOLEAN]

\* getCurrentUser's null.
NoUser == [id |-> "null", role |-> "null", is_superuser |-> FALSE]

\* No page has been rendered and no handler has run on the server. A run
\* records its inputs (hasToken, the current user, whether the first and the
\* second readUserMe failed, the userId of the route, the required role) and
\* what it did (redirect, the SDK calls made, the permission or the status
\* returned).
NoRender ==
    [op |-> "none", hasToken |-> FALSE, user |-> NoUser, fail1 |-> FALSE,
     fail2 |-> FALSE, userId |-> "null", role |-> "null",
     redirect |-> NoNav, calls |-> {}, allowed |-> FALSE, status |-> 0]

----------------------------------------------------------------------------
\* Route handlers and server actions

\* What the backend's logout call can do: succeed, answer with an error
\* (401) without throwing, or throw.
LogoutResponses == {"ok", "error", "throws"}

\* The backend is called only when a token was read from the cookie.
LogoutCalls(hasToken) == IF hasToken THEN LogoutResponses ELSE {"notCalled"}

\* Mutant of PostLogout: the answer's status follows the backend call.
PostLogoutStatusFromBackend(hasToken, api) ==
    [deleted |-> TRUE,
     status |-> IF hasToken /\ api # "ok" THEN 500 ELSE 200,
     called |-> hasToken]

\* Mutant of PostLogout: the backend call is not wrapped in its own
\* try / catch, so its exception reaches the outer catch.
PostLogoutNoCatch(hasToken, api) ==
    LET threw == hasToken /\ api = "throws"
    IN  [deleted |-> ~threw,
         status |-> IF threw THEN 500 ELSE 200,
         called |-> hasToken]

\* POST /api/auth/logout with the cookie store at hand: the backend is
\* called when a token is there, its exception is caught by the inner
\* catch, then the cookie is deleted and the answer is 200.
PostLogout(hasToken, api) ==
    LET threw == hasToken /\ api = "throws"
        caught == threw
        escaped == threw /\ ~caught
    IN  [deleted |-> ~escaped,
         status |-> IF escaped THEN 500 ELSE 200,
         called |-> hasToken]

\* POST /api/auth/logout with a cookie store that throws: on the read
\* (await cookies(), cookieStore.get) nothing has happened yet; on
\* cookieStore.delete the backend has already been called. The outer catch
\* answers 500 and the cookie stays.
PostLogoutStoreThrows(stage, hasToken, api) ==
    [deleted |-> FALSE,
     status |-> 500,
     called |-> stage = "delete" /\ hasToken]

\* Mutant of ActionLogout: deletion and redirect follow the try block
\* without catch and finally.
ActionLogoutNoFinally(hasToken, api) ==
    LET threw == hasToken /\ api = "throws"
    IN  [deleted |-> ~threw,
         redirect |-> IF threw THEN NoNav ELSE LoginPath,
         called |-> hasToken]

\* The server action logout(): the backend is called when a token is
\* there; catch logs its exception; finally deletes the cookie and
\* redirects to /login on every path.
ActionLogout(hasToken, api) ==
    LET threw == hasToken /\ api = "throws"
        finallyRuns == TRUE
    IN  [deleted |-> finallyRuns,
         redirect |-> IF finallyRuns THEN LoginPath ELSE NoNav,
         called |-> hasToken]

\* What loginAccessToken can do: answer with token data, answer without
\* data (an error response), or throw.
LoginResponses == {"data", "nodata", "throws"}

\* The backend is called only with valid form data.
LoginCalls(valid) == IF valid THEN LoginResponses ELSE {"notCalled"}

\* Mutant of ActionLogin: success is returned without the cookie being set.
ActionLoginForgetsCookie(valid, backend) ==
    IF ~valid THEN [setCookie |-> FALSE, success |-> FALSE, error |-> "validation"]
    ELSE IF backend = "throws"
    THEN [setCookie |-> FALSE, success |-> FALSE, error |-> "thrown"]
    ELSE IF backend = "data"
    THEN [setCookie |-> FALSE, success |-> TRUE, error |-> "null"]
    ELSE [setCookie |-> FALSE, success |-> FALSE, error |-> "noToken"]

\* Mutant of ActionLogin: response.data is not tested before the cookie is
\* written.
ActionLoginNoDataTest(valid, backend) ==
    IF ~valid THEN [setCookie |-> FALSE, success |-> FALSE, error |-> "validation"]
    ELSE IF backend = "throws"
    THEN [setCookie |-> FALSE, success |-> FALSE, error |-> "thrown"]
    ELSE [setCookie |-> TRUE, success |-> TRUE, error |-> "null"]

\* The server action login(): a validation failure returns its message;
\* response.data sets the auth-token cookie and returns success; a response
\* without data and a thrown error return an error state. The cookie store
\* of a server action accepts the write.
ActionLogin(valid, backend) ==
    IF ~valid THEN [setCookie |-> FALSE, success |-> FALSE, error |-> "validation"]
    ELSE IF backend = "throws"
    THEN [setCookie |-> FALSE, success |-> FALSE, error |-> "thrown"]
    ELSE IF backend = "data"
    THEN [setCookie |-> TRUE, success |-> TRUE, error |-> "null"]
    ELSE [setCookie |-> FALSE, success |-> FALSE, error |-> "noToken"]

\* What registerUser can do: answer 201 (the user is created), answer with
\* an error such as 409 without throwing (the SDK client is configured with
\* its base URL only), or throw.
RegisterResponses == {"created", "refused", "throws"}

\* The backend is called only with valid form data.
RegisterCalls(valid) == IF valid THEN RegisterResponses ELSE {"notCalled"}

\* The server action register(): a validation failure returns its message;
\* registerUser is awaited and its answer is not looked at, success is
\* returned; a thrown error returns an error state. No cookie is written.
ActionRegister(valid, backend) ==
    IF ~valid THEN [setCookie |-> FALSE, success |-> FALSE, error |-> "validation"]
    ELSE IF backend = "throws"
    THEN [setCookie |-> FALSE, success |-> FALSE, error |-> "thrown"]
    ELSE [setCookie |-> FALSE, success |-> TRUE, error |-> "null"]

\* RegisterForm before a submission: useActionState's initial state, and
\* formSubmitRef.current is false (handled).
NoSubmission ==
    [handled |-> TRUE, success |-> FALSE, error |-> "null", created |-> FALSE]

\* Mutant of StatusAnswer: the status asks the backend about the token.
StatusAnswerValidated(hasToken, valid) == hasToken /\ valid

\* Mutant of StatusAnswer: the status is always "authenticated".
StatusAnswerStuck(hasToken, valid) == TRUE

\* checkAuthStatus / GET /api/auth/status: !!token.
StatusAnswer(hasToken, valid) == hasToken

\* getCurrentUser(): null without a token; otherwise readUserMe is called
\* and its data returned; a thrown error or an answer without data (failed)
\* gives null.
GetCurrentUser(hasToken, user, failed) ==
    [user |-> IF hasToken /\ ~failed THEN user ELSE NoUser,
     calls |-> IF hasToken THEN {"readUserMe"} ELSE {}]

\* Mutant of CheckUserPermission: "user" is granted to the role user only.
CheckUserPermissionExact(requiredRole, hasToken, user, failed) ==
    LET me == GetCurrentUser(hasToken, user, failed).user
    IN  IF me = NoUser THEN FALSE
        ELSE IF me.is_superuser THEN TRUE
        ELSE CASE requiredRole = "admin" -> me.role = "admin"
               [] requiredRole = "user" -> me.role = "user"
               [] requiredRole = "guest" -> TRUE
               [] OTHER -> FALSE

\* Mutant of CheckUserPermission: any fetched user has the admin permission.
CheckUserPermissionOpen(requiredRole, hasToken, user, failed) ==
    LET me == GetCurrentUser(hasToken, user, failed).user
    IN  IF me = NoUser THEN FALSE ELSE TRUE

\* checkUserPermission(requiredRole): false without a current user; true for
\* a superuser; otherwise by the role hierarchy.
CheckUserPermission(requiredRole, hasToken, user, failed) ==
    LET me == GetCurrentUser(hasToken, user, failed).user
    IN  IF me = NoUser THEN FALSE
        ELSE IF me.is_superuser THEN TRUE
        ELSE CASE requiredRole = "admin" -> me.role = "admin"
               [] requiredRole = "user" -> me.role = "admin" \/ me.role = "user"
               [] requiredRole = "guest" -> TRUE
               [] OTHER -> FALSE

\* Mutant of ProfilePage: the user is fetched before the status is tested.
ProfilePageFetchesFirst(hasToken, user, failed) ==
    IF ~StatusAnswer(hasToken, TRUE)
    THEN [redirect |-> LoginPath, calls |-> {"readUserMe"}]
    ELSE [redirect |-> NoNav,
          calls |-> GetCurrentUser(hasToken, user, failed).calls]

\* ProfilePage: redirect("/login") (which throws) when checkAuthStatus is
\* false, otherwise getCurrentUser.
ProfilePage(hasToken, user, failed) ==
    IF ~StatusAnswer(hasToken, TRUE)
    THEN [redirect |-> LoginPath, calls |-> {}]
    ELSE [redirect |-> NoNav,
          calls |-> GetCurrentUser(hasToken, user, failed).calls]

\* UsersPage: redirect when checkAuthStatus is false; without the admin
\* permission the page says so; otherwise readUsers is called with the token.
UsersPage(hasToken, user, failed) ==
    IF ~StatusAnswer(hasToken, TRUE)
    THEN [redirect |-> LoginPath, calls |-> {}]
    ELSE IF ~CheckUserPermission("admin", hasToken, user, failed)
    THEN [redirect |-> NoNav,
          calls |-> GetCurrentUser(hasToken, user, failed).calls]
    ELSE [redirect |-> NoNav,
          calls |-> GetCurrentUser(hasToken, user, failed).calls
                      \cup (IF hasToken THEN {"readUsers"} ELSE {})]

\* UserDetailPage: redirect when checkAuthStatus is false; without the admin
\* permission the current user is fetched again and must be the user of the
\* route; then getUserById(params.userId) calls readUser with the token.
UserDetailPage(hasToken, user, fail1, fail2, userId) ==
    IF ~StatusAnswer(hasToken, TRUE)
    THEN [redirect |-> LoginPath, calls |-> {}]
    ELSE LET hasPermission == CheckUserPermission("admin", hasToken, user, fail1)
             currentUser == GetCurrentUser(hasToken, user, fail2).user
             denied == /\ ~hasPermission
                       /\ (currentUser = NoUser \/ currentUser.id # userId)
         IN  [redirect |-> NoNav,
              calls |-> GetCurrentUser(hasToken, user, fail1).calls
                          \cup (IF ~denied /\ hasToken
                                THEN {"readUser"} ELSE {})]

\* POST of the logout route handler as of src/unnamed/part_011: the backend
\* call stands in the handler's one try block; its exception reaches the
\* catch, which answers 500, and cookieStore.delete is not reached.
PostLogoutOlder(hasToken, api) ==
    LET threw == hasToken /\ api = "throws"
    IN  [deleted |-> ~threw,
         status |-> IF threw THEN 500 ELSE 200,
         called |-> hasToken]

\* The backend's logout: revokes the token it is given.
BackendRevokes(hasToken, valid, api) ==
    IF hasToken /\ api = "ok" THEN FALSE ELSE valid

----------------------------------------------------------------------------
\* The backend's authentication core: Token Codec, Revocation Store and
\* Auth Service

\* Bound: the clock runs from 0 to MaxTime.
MaxTime == 3

\* Bound: requests that may be inside the backend at the same time.
MaxProcs == 2

Procs == 1..MaxProcs

\* No request holds the lock.
NoProc == 0

\* No cleanup is in progress.
NoCleanup == -1

\* The tokens a request can carry: signed ones by their embedded expiry, one
\* with a signature that does not match, one that cannot be parsed.
Tokens ==
    {[sig |-> "ok", exp |-> e] : e \in 1..MaxTime}
        \cup {[sig |-> "bad", exp |-> MaxTime], [sig |-> "none", exp |-> 0]}

\* The user records: identifier and secret of the registered user.
Identifiers == {"alice", "bob"}
Secrets == {"Passw0rd", "guess"}
Registered == {"alice"}
SecretOf(identifier) == "Passw0rd"

\* The lifetime given to an issued token.
TokenTtl == 1

\* Token Codec issue(subject, ttl): the expiry is now + ttl.
Issue(time, ttl) == [sig |-> "ok", exp |-> time + ttl]

\* Token Codec verify(token): Malformed when it cannot be parsed,
\* InvalidSignature when the signature does not match, Expired when
\* now > embedded expiry.
Verify(token, time) ==
    IF token.sig = "none" THEN "Malformed"
    ELSE IF token.sig = "bad" THEN "InvalidSignature"
    ELSE IF time > token.exp THEN "Expired"
    ELSE "ok"

\* Revocation Store revoke(tokenId, expiry): the entry of tokenId records
\* expiry; revoking again leaves one entry.
Revoke(st, id, expiry) ==
    {e \in st : e.id # id} \cup {[id |-> id, exp |-> expiry]}

\* Revocation Store isRevoked(tokenId): membership.
IsRevoked(st, id) == \E e \in st : e.id = id

\* Mutant of Cleanup: the comparison is the wrong way round.
CleanupInverted(st, time) == {e \in st : e.exp <= time}

\* Revocation Store cleanup(now): what is left when every entry whose
\* recorded expiry <= now is removed.
Cleanup(st, time) == {e \in st : ~(e.exp <= time)}

\* Mutant of CanEnter: the store is used without taking the lock.
CanEnterUnguarded == TRUE

\* The store's mutual exclusion: a request enters when no request holds
\* the lock.
CanEnter == lock = NoProc

\* Mutant of ServiceLogin: an unknown identifier gets its own failure.
ServiceLoginTellsUnknown(identifier, secret, time) ==
    IF identifier \notin Registered
    THEN [result |-> "UserNotFound", exp |-> 0]
    ELSE IF SecretOf(identifier) # secret
    THEN [result |-> "InvalidCredentials", exp |-> 0]
    ELSE [result |-> "ok", exp |-> Issue(time, TokenTtl).exp]

\* Auth Service login(identifier, secret): the user is looked up and the
\* secret compared; both failures are InvalidCredentials; success issues a
\* token.
ServiceLogin(identifier, secret, time) ==
    IF identifier \in Registered /\ SecretOf(identifier) = secret
    THEN [result |-> "ok", exp |-> Issue(time, TokenTtl).exp]
    ELSE [result |-> "InvalidCredentials", exp |-> 0]

\* Mutant of ServiceLogout: a token that is already revoked is refused.
ServiceLogoutRefusesRevoked(token, st, time) ==
    LET v == Verify(token, time)
    IN  IF v \in {"Malformed", "InvalidSignature"} \/ IsRevoked(st, token)
        THEN [result |-> "InvalidToken", store |-> st, revoked |-> FALSE]
        ELSE IF v = "Expired"
        THEN [result |-> "ok", store |-> st, revoked |-> FALSE]
        ELSE [result |-> "ok", store |-> Revoke(st, token, token.exp),
              revoked |-> TRUE]

\* Auth Service logout(token): the token is verified, then revoked with its
\* embedded expiry; a token that is already expired or already revoked is a
\* success; one that does not verify otherwise is InvalidToken.
ServiceLogout(token, st, time) ==
    LET v == Verify(token, time)
    IN  IF v \in {"Malformed", "InvalidSignature"}
        THEN [result |-> "InvalidToken", store |-> st, revoked |-> FALSE]
        ELSE IF v = "Expired"
        THEN [result |-> "ok", store |-> st, revoked |-> FALSE]
        ELSE [result |-> "ok", store |-> Revoke(st, token, token.exp),
              revoked |-> TRUE]

\* Auth Service authenticate(token): verify, then isRevoked; either failure
\* is Unauthenticated.
Authenticate(token, st, time) ==
    IF Verify(token, time) # "ok" \/ IsRevoked(st, token)
    THEN "Unauthenticated"
    ELSE "ok"

\* History of a request: the operation, its answer, the expiry of the
\* token a login issued, and whether a logout's token had been revoked by
\* an earlier logout.
NoReply == [op |-> "none", result |-> "none", exp |-> 0, again |-> FALSE]

\* The backend process after its start: the store is empty (it is volatile).
BackendStarted ==
    /\ now = 0
    /\ store = {}
    /\ lock = NoProc
    /\ cleanAt = NoCleanup
    /\ keep = {}
    /\ returned = {}
    /\ reply = NoReply

----------------------------------------------------------------------------
\* Mutant of Mounted: the store is created with false whatever initialAuth is.
MountedIgnoresInitialAuth ==
    /\ mounted = TRUE
    /\ timers = SetInterval(0)
    /\ registerState = NoSubmission
    /\ render = NoRender
    /\ cookie \in BOOLEAN
    /\ tokenValid \in BOOLEAN
    /\ tokenValid => cookie
    /\ authState = FALSE
    /\ optimistic = FALSE
    /\ pathname \in Paths
    /\ navPending = IF GuardFires(~authState, pathname, authState, pathname)
                    THEN LoginPath ELSE NoNav
    /\ checks = <<NewCheck(authState, pathname, FALSE)>>
    /\ logoutPc = "idle"
    /\ logoutOk = FALSE
    /\ loginSuccess = FALSE
    /\ last = [NoLast EXCEPT !.op = "mount",
                              !.guard = (navPending = LoginPath)]

\* The provider after its first render and effects: initialAuth is the
\* status the layout read from the cookie, the first-load check is in
\* flight and the route guard has run.
Mounted ==
    /\ mounted = TRUE
    /\ timers = SetInterval(0)
    /\ registerState = NoSubmission
    /\ render = NoRender
    /\ cookie \in BOOLEAN
    /\ tokenValid \in BOOLEAN
    /\ tokenValid => cookie
    /\ authState = StatusAnswer(cookie, tokenValid)
    /\ optimistic = FALSE
    /\ pathname \in Paths
    /\ navPending = IF GuardFires(~authState, pathname, authState, pathname)
                    THEN LoginPath ELSE NoNav
    /\ checks = <<NewCheck(authState, pathname, FALSE)>>
    /\ logoutPc = "idle"
    /\ logoutOk = FALSE
    /\ loginSuccess = FALSE
    /\ last = [NoLast EXCEPT !.op = "mount",
                              !.guard = (navPending = LoginPath)]

Init == Mounted /\ tracking = FALSE /\ BackendStarted

\* The same program with the history of overtaken checks switched on.
InitTracked == Mounted /\ tracking = TRUE /\ BackendStarted

----------------------------------------------------------------------------
\* Status checks

\* The setInterval callback starts a check with the values its closure holds.
Tick ==
    /\ timers > 0
    /\ Len(checks) < MaxChecks
    /\ checks' = Append(checks, NewCheck(authState, pathname, TRUE))
    /\ last' = NoLast
    /\ UNCHANGED <<backendVars, tracking, mounted, timers, registerState,
                   render, cookie, tokenValid, authState, optimistic,
                   pathname, navPending, logoutPc, logoutOk, loginSuccess>>

\* The server runs checkAuthStatus for the i-th check in flight.
CheckServed(i) ==
    /\ ~checks[i].served
    /\ checks' = [checks EXCEPT ![i].served = TRUE,
                                ![i].answer = StatusAnswer(cookie, tokenValid)]
    /\ last' = NoLast
    /\ UNCHANGED <<backendVars, pageVars, tracking, cookie, tokenValid, authState, optimistic,
                   pathname,
                   navPending, logoutPc, logoutOk, loginSuccess>>

\* The answer of the i-th check arrives: the closure compares it with the
\* flag it captured, sets the store, and (interval callback only) pushes
\* /login when it captured a route outside the allow-list.
CheckDone(i) ==
    LET c == checks[i]
        differs == c.answer # c.captured
        auth1 == IF differs THEN SetState(authState, c.answer) ELSE authState
        pushes == differs /\ c.periodic /\ ~c.answer /\ ~c.isPublicRoute
        guard == GuardFires(authState, pathname, auth1, pathname)
        rest == RemoveAt(IF differs THEN MarkStaleBefore(checks, i) ELSE checks, i)
    IN  /\ c.served
        /\ authState' = auth1
        /\ navPending' = IF pushes \/ guard THEN LoginPath ELSE navPending
        /\ checks' = EffectChecks(authState, pathname, auth1, pathname, rest)
        /\ timers' = EffectTimers(authState, pathname, auth1, pathname, timers)
        /\ last' = [NoLast EXCEPT !.op = IF differs THEN "checkWrote" ELSE "other",
                                  !.guard = guard]
        /\ UNCHANGED <<backendVars, tracking, mounted, registerState, render,
                       cookie, tokenValid, optimistic, pathname, logoutPc,
                       logoutOk, loginSuccess>>

\* Mutant of CheckFailed: a failed check is taken as "not authenticated".
CheckFailedLogsOut(i) ==
    /\ checks' = RemoveAt(checks, i)
    /\ authState' = FALSE
    /\ last' = [NoLast EXCEPT !.op = IF checks[i].periodic
                                     THEN "periodicFailed" ELSE "other"]
    /\ UNCHANGED <<backendVars, pageVars, tracking, cookie, tokenValid, optimistic,
                   pathname,
                   navPending, logoutPc, logoutOk, loginSuccess>>

\* The i-th check fails with a network error: the catch logs it with
\* console.error and the transition ends; the interval stays.
CheckFailed(i) ==
    /\ checks' = RemoveAt(checks, i)
    /\ last' = [NoLast EXCEPT !.op = IF checks[i].periodic
                                     THEN "periodicFailed" ELSE "other"]
    /\ UNCHANGED <<backendVars, pageVars, tracking, cookie, tokenValid, authState, optimistic,
                   pathname,
                   navPending, logoutPc, logoutOk, loginSuccess>>

----------------------------------------------------------------------------
\* AuthProvider.logout

\* Mutant of LogoutStart: the request is sent without the optimistic update.
LogoutStartNoOptimistic ==
    /\ mounted
    /\ ContextIsAuthenticated
    /\ ~IsPending
    /\ optimistic' = optimistic
    /\ logoutPc' = "sent"
    /\ last' = [NoLast EXCEPT !.op = "logoutStart"]
    /\ UNCHANGED <<backendVars, pageVars, tracking, cookie, tokenValid, authState, pathname,
                   navPending, checks, logoutOk, loginSuccess>>

\* Mutant of LogoutStart: logout() without its isPending test, behind a
\* button that is always there and never disabled.
LogoutStartUnguarded ==
    /\ mounted
    /\ optimistic' = TRUE
    /\ logoutPc' = "sent"
    /\ last' = [NoLast EXCEPT !.op = "logoutStart"]
    /\ UNCHANGED <<backendVars, pageVars, tracking, cookie, tokenValid,
                   authState, pathname, navPending, checks, logoutOk,
                   loginSuccess>>

\* The logout button (shown while the context's isAuthenticated is true,
\* disabled while isPending) is clicked: logout() returns while isPending;
\* otherwise the optimistic value false is set and the POST request is sent.
LogoutStart ==
    /\ mounted
    /\ ContextIsAuthenticated
    /\ ~IsPending
    /\ optimistic' = TRUE
    /\ logoutPc' = "sent"
    /\ last' = [NoLast EXCEPT !.op = "logoutStart"]
    /\ UNCHANGED <<backendVars, pageVars, tracking, cookie, tokenValid, authState, pathname,
                   navPending, checks, logoutOk, loginSuccess>>

\* The route handler runs for the request: it reads the cookie, calls the
\* backend, deletes the cookie and answers.
LogoutServed ==
    /\ logoutPc = "sent"
    /\ \E api \in LogoutCalls(cookie) :
        LET r == PostLogout(cookie, api)
        IN  /\ cookie' = (cookie /\ ~r.deleted)
            /\ tokenValid' = (cookie' /\ BackendRevokes(r.called, tokenValid, api))
            /\ logoutOk' = (r.status = 200)
            /\ last' = [NoLast EXCEPT !.op = "post",
                                      !.threw = (r.called /\ api = "throws")]
    /\ logoutPc' = "served"
    /\ UNCHANGED <<backendVars, pageVars, tracking, authState, optimistic, pathname, navPending,
                   checks,
                   loginSuccess>>

\* The route handler's outer catch: the cookie store threw on the read or
\* on the delete, the answer is 500 and the cookie stays.
LogoutServed500 ==
    /\ logoutPc = "sent"
    /\ \E stage \in {"read", "delete"} :
       \E api \in LogoutCalls(stage = "delete" /\ cookie) :
        LET r == PostLogoutStoreThrows(stage, cookie, api)
        IN  /\ cookie' = (cookie /\ ~r.deleted)
            /\ tokenValid' = (cookie' /\ BackendRevokes(r.called, tokenValid, api))
            /\ logoutOk' = (r.status = 200)
    /\ logoutPc' = "served"
    /\ last' = [NoLast EXCEPT !.op = "post500"]
    /\ UNCHANGED <<backendVars, pageVars, tracking, authState, optimistic,
                   pathname,
                   navPending, checks, loginSuccess>>

\* Mutant of LogoutEnds: router.push("/login") is left out.
LogoutEndsNoPush(op, auth1, pushes) ==
    LET guard == GuardFires(authState, pathname, auth1, pathname)
    IN  /\ Len(checks) < MaxChecks \/ auth1 = authState
        /\ authState' = auth1
        /\ optimistic' = FALSE
        /\ logoutPc' = "idle"
        /\ logoutOk' = FALSE
        /\ navPending' = IF guard THEN LoginPath ELSE navPending
        /\ checks' = EffectChecks(authState, pathname, auth1, pathname,
                                  MarkStale(checks))
        /\ timers' = EffectTimers(authState, pathname, auth1, pathname, timers)
        /\ last' = [NoLast EXCEPT !.op = op, !.guard = guard]
        /\ UNCHANGED <<backendVars, tracking, mounted, registerState, render,
                       cookie, tokenValid, pathname, loginSuccess>>

\* The end of the logout transition, with the flag value auth1 it stored and
\* whether it pushed /login.
LogoutEnds(op, auth1, pushes) ==
    LET guard == GuardFires(authState, pathname, auth1, pathname)
    IN  /\ Len(checks) < MaxChecks \/ auth1 = authState
        /\ authState' = auth1
        /\ optimistic' = FALSE
        /\ logoutPc' = "idle"
        /\ logoutOk' = FALSE
        /\ navPending' = IF pushes \/ guard THEN LoginPath ELSE navPending
        /\ checks' = EffectChecks(authState, pathname, auth1, pathname,
                                  MarkStale(checks))
        /\ timers' = EffectTimers(authState, pathname, auth1, pathname, timers)
        /\ last' = [NoLast EXCEPT !.op = op, !.guard = guard]
        /\ UNCHANGED <<backendVars, tracking, mounted, registerState, render,
                       cookie, tokenValid, pathname, loginSuccess>>

\* Mutant of LogoutDone: a non-OK answer leaves the store as it is.
LogoutDoneKeepsFlag ==
    /\ logoutPc = "served"
    /\ IF logoutOk
       THEN LogoutEnds("logoutOk", SetState(authState, FALSE), TRUE)
       ELSE LogoutEnds("logoutNotOk", authState, FALSE)

\* The response arrives: ok stores false and pushes /login, anything else
\* stores true again.
LogoutDone ==
    /\ logoutPc = "served"
    /\ IF logoutOk
       THEN LogoutEnds("logoutOk", SetState(authState, FALSE), TRUE)
       ELSE LogoutEnds("logoutNotOk", SetState(authState, TRUE), FALSE)

\* Mutant of LogoutNetErr: the catch only logs the error.
LogoutNetErrKeepsFlag ==
    /\ logoutPc \in {"sent", "served"}
    /\ LogoutEnds("logoutNetErr", authState, FALSE)

\* fetch rejects (the request or its response is lost): the catch stores
\* true again.
LogoutNetErr ==
    /\ logoutPc \in {"sent", "served"}
    /\ LogoutEnds("logoutNetErr", SetState(authState, TRUE), FALSE)

----------------------------------------------------------------------------
\* Login, the logout server action, navigation, expiry

\* The login server action runs for a submitted LoginForm with the outcome
\* of the validation and of the backend call: the cookie takes the new
\* token when the action set it, and the form receives the returned state.
LoginActionWith(valid, backend) ==
    LET r == ActionLogin(valid, backend)
    IN  /\ mounted
        /\ pathname = LoginPath
        /\ ~loginSuccess
        /\ cookie' = (r.setCookie \/ cookie)
        /\ tokenValid' = (r.setCookie \/ tokenValid)
        /\ loginSuccess' = r.success
        /\ last' = NoLast
        /\ UNCHANGED <<backendVars, pageVars, tracking, authState, optimistic, pathname, navPending,
                       checks,
                       logoutPc, logoutOk>>

LoginAction ==
    \E valid \in BOOLEAN :
        \E backend \in LoginCalls(valid) : LoginActionWith(valid, backend)

\* LoginForm's effect on state.success: setAuth(true); router.push("/").
LoginEffect ==
    LET auth1 == SetState(authState, TRUE)
    IN  /\ mounted
        /\ loginSuccess
        /\ pathname = LoginPath
        /\ Len(checks) < MaxChecks \/ auth1 = authState
        /\ authState' = auth1
        /\ loginSuccess' = FALSE
        /\ navPending' = RootPath
        /\ checks' = EffectChecks(authState, pathname, auth1, pathname,
                                  MarkStale(checks))
        /\ timers' = EffectTimers(authState, pathname, auth1, pathname, timers)
        /\ last' = NoLast
        /\ UNCHANGED <<backendVars, tracking, mounted, registerState, render,
                       cookie, tokenValid, optimistic, pathname, logoutPc,
                       logoutOk>>

\* The server action logout() is invoked from this tab.
LogoutAction ==
    \E api \in LogoutCalls(cookie) :
        LET r == ActionLogout(cookie, api)
        IN  /\ mounted
            /\ cookie' = (cookie /\ ~r.deleted)
            /\ tokenValid' = (cookie' /\ BackendRevokes(r.called, tokenValid, api))
            /\ navPending' = IF r.redirect # NoNav THEN r.redirect ELSE navPending
            /\ last' = [NoLast EXCEPT !.op = "logoutAction",
                                      !.threw = (r.called /\ api = "throws")]
            /\ UNCHANGED <<backendVars, pageVars, tracking, authState, optimistic, pathname, checks,
                           logoutPc,
                           logoutOk, loginSuccess>>

\* A NavBar or LoginForm button pushes a route.
UserNavigate ==
    \E target \in {RootPath, LoginPath, ProfilePath} :
        /\ mounted
        /\ target = RootPath
           \/ (target = ProfilePath /\ ContextIsAuthenticated)
           \/ (target = LoginPath /\ ~ContextIsAuthenticated)
        /\ navPending' = target
        /\ last' = NoLast
        /\ UNCHANGED <<backendVars, pageVars, tracking, cookie, tokenValid, authState, optimistic,
                       pathname,
                       checks, logoutPc, logoutOk, loginSuccess>>

\* The router commits the pending navigation: pathname changes and both
\* effects re-run.
NavCommit ==
    LET guard == GuardFires(authState, pathname, authState, navPending)
    IN  /\ mounted
        /\ navPending # NoNav
        /\ Len(checks) < MaxChecks \/ navPending = pathname
        /\ pathname' = navPending
        /\ navPending' = IF guard THEN LoginPath ELSE NoNav
        /\ checks' = EffectChecks(authState, pathname, authState, navPending,
                                  checks)
        /\ timers' = EffectTimers(authState, pathname, authState, navPending,
                                  timers)
        /\ loginSuccess' = (loginSuccess /\ navPending = LoginPath)
        /\ registerState' = IF navPending = RegisterPath
                            THEN registerState ELSE NoSubmission
        /\ last' = [NoLast EXCEPT !.guard = guard]
        /\ UNCHANGED <<backendVars, tracking, mounted, render, cookie,
                       tokenValid, authState, optimistic, logoutPc, logoutOk>>

\* The cookie reaches its maxAge and the browser drops it.
CookieExpires ==
    /\ cookie
    /\ cookie' = FALSE
    /\ tokenValid' = FALSE
    /\ last' = NoLast
    /\ UNCHANGED <<backendVars, pageVars, tracking, authState, optimistic, pathname, navPending,
                   checks,
                   logoutPc, logoutOk, loginSuccess>>

\* The token passes its embedded expiry (or is revoked elsewhere) while the
\* cookie stays.
TokenExpires ==
    /\ tokenValid
    /\ tokenValid' = FALSE
    /\ last' = NoLast
    /\ UNCHANGED <<backendVars, pageVars, tracking, cookie, authState, optimistic, pathname,
                   navPending,
                   checks, logoutPc, logoutOk, loginSuccess>>

----------------------------------------------------------------------------
Next ==
    \/ Tick
    \/ \E i \in 1..Len(checks) : CheckServed(i)
    \/ \E i \in 1..Len(checks) : CheckDone(i)
    \/ \E i \in 1..Len(checks) : CheckFailed(i)
    \/ LogoutStart
    \/ LogoutServed
    \/ LogoutServed500
    \/ LogoutDone
    \/ LogoutNetErr
    \/ LoginAction
    \/ LoginEffect
    \/ LogoutAction
    \/ UserNavigate
    \/ NavCommit
    \/ CookieExpires
    \/ TokenExpires

Spec == Init /\ [][Next]_vars

TrackedSpec == InitTracked /\ [][Next]_vars

TypeOK ==
    /\ cookie \in BOOLEAN /\ tokenValid \in BOOLEAN /\ authState \in BOOLEAN
    /\ optimistic \in BOOLEAN /\ logoutOk \in BOOLEAN
    /\ loginSuccess \in BOOLEAN
    /\ pathname \in Paths
    /\ navPending \in Paths \cup {NoNav}
    /\ Len(checks) <= MaxChecks
    /\ logoutPc \in {"idle", "sent", "served"}
    /\ tokenValid => cookie

\* Timers and effects run, the router commits and every request that is not
\* lost is answered and its answer delivered.
FairSpec ==
    /\ Spec
    /\ WF_vars(Tick)
    /\ WF_vars(\E i \in 1..Len(checks) : CheckServed(i))
    /\ WF_vars(\E i \in 1..Len(checks) : CheckDone(i))
    /\ WF_vars(LogoutServed)
    /\ WF_vars(LogoutDone)
    /\ WF_vars(LoginEffect)
    /\ WF_vars(NavCommit)

\* Timers and effects run, the router commits and status checks are
\* answered; the network may keep the logout request forever.
HungLogoutSpec ==
    /\ Spec
    /\ WF_vars(Tick)
    /\ WF_vars(\E i \in 1..Len(checks) : CheckServed(i))
    /\ WF_vars(\E i \in 1..Len(checks) : CheckDone(i))
    /\ WF_vars(LoginEffect)
    /\ WF_vars(NavCommit)

----------------------------------------------------------------------------
\* Teardown of the session client

\* The AuthProvider is unmounted: React runs the cleanup of the status
\* effect's last run (clearInterval) and the effects run no more; requests
\* in flight are still answered.
Unmount ==
    /\ mounted
    /\ mounted' = FALSE
    /\ timers' = ClearInterval(timers)
    /\ last' = [NoLast EXCEPT !.op = "unmount"]
    /\ UNCHANGED <<backendVars, tracking, registerState, render, cookie,
                   tokenValid, authState, optimistic, pathname, navPending,
                   checks, logoutPc, logoutOk, loginSuccess>>

\* The status effect over the provider's lifetime: ticks and checks, the
\* flag changes by check answers and logins, the route changes, the cookie's
\* expiry, and the teardown.
TeardownNext ==
    \/ Tick
    \/ \E i \in 1..Len(checks) : CheckServed(i)
    \/ \E i \in 1..Len(checks) : CheckDone(i)
    \/ \E i \in 1..Len(checks) : CheckFailed(i)
    \/ LoginAction
    \/ LoginEffect
    \/ UserNavigate
    \/ NavCommit
    \/ CookieExpires
    \/ Unmount

TeardownSpec == Init /\ [][TeardownNext]_vars

----------------------------------------------------------------------------
\* The RegisterForm

\* The NavBar's register button (shown while not authenticated) pushes
\* /register.
RegisterNavigate ==
    /\ mounted
    /\ ~ContextIsAuthenticated
    /\ navPending' = RegisterPath
    /\ last' = NoLast
    /\ UNCHANGED <<backendVars, pageVars, tracking, cookie, tokenValid,
                   authState, optimistic, pathname, checks, logoutPc,
                   logoutOk, loginSuccess>>

\* The register server action runs for a submitted RegisterForm with the
\* outcome of the validation and of the backend call; the form receives the
\* returned state and formSubmitRef.current is true. created records what
\* the backend did.
RegisterActionWith(valid, backend) ==
    LET r == ActionRegister(valid, backend)
    IN  /\ mounted
        /\ pathname = RegisterPath
        /\ registerState.handled
        /\ cookie' = (r.setCookie \/ cookie)
        /\ tokenValid' = (r.setCookie \/ tokenValid)
        /\ registerState' = [handled |-> FALSE, success |-> r.success,
                             error |-> r.error,
                             created |-> (backend = "created")]
        /\ last' = [NoLast EXCEPT !.op = "register"]
        /\ UNCHANGED <<backendVars, tracking, mounted, timers, render,
                       authState, optimistic, pathname, navPending, checks,
                       logoutPc, logoutOk, loginSuccess>>

RegisterAction ==
    \E valid \in BOOLEAN :
        \E backend \in RegisterCalls(valid) :
            RegisterActionWith(valid, backend)

\* RegisterForm's effect on the returned state: the submission mark is
\* reset and state.success pushes /login.
RegisterEffect ==
    /\ mounted
    /\ pathname = RegisterPath
    /\ ~registerState.handled
    /\ registerState' = [registerState EXCEPT !.handled = TRUE]
    /\ navPending' = IF registerState.success THEN LoginPath ELSE navPending
    /\ last' = [NoLast EXCEPT !.op = "registerEffect"]
    /\ UNCHANGED <<backendVars, tracking, mounted, timers, render, cookie,
                   tokenValid, authState, optimistic, pathname, checks,
                   logoutPc, logoutOk, loginSuccess>>

RegisterNext ==
    \/ RegisterNavigate
    \/ RegisterAction
    \/ RegisterEffect
    \/ NavCommit
    \/ Tick
    \/ \E i \in 1..Len(checks) : CheckServed(i)
    \/ \E i \in 1..Len(checks) : CheckDone(i)
    \/ \E i \in 1..Len(checks) : CheckFailed(i)
    \/ CookieExpires

\* A visitor who opens the site on "/" or /login and goes on to register.
RegisterInit ==
    /\ Mounted
    /\ pathname \in {RootPath, LoginPath}
    /\ tracking = FALSE
    /\ BackendStarted

RegisterSpec == RegisterInit /\ [][RegisterNext]_vars

----------------------------------------------------------------------------
\* The server side of the web application: page renders, permission checks
\* and the logout route handler as of src/unnamed/part_011

\* /profile is requested and rendered.
ProfilePageRendered ==
    \E user \in Users, failed \in BOOLEAN :
        LET r == ProfilePage(cookie, user, failed)
        IN  /\ render' = [NoRender EXCEPT
                             !.op = "ProfilePage", !.hasToken = cookie,
                             !.user = user, !.fail1 = failed,
                             !.redirect = r.redirect, !.calls = r.calls]
            /\ UNCHANGED <<backendVars, tracking, mounted, timers,
                           registerState, cookie, tokenValid, authState,
                           optimistic, pathname, navPending, checks, logoutPc,
                           logoutOk, loginSuccess, last>>

\* /users is requested and rendered.
UsersPageRendered ==
    \E user \in Users, failed \in BOOLEAN :
        LET r == UsersPage(cookie, user, failed)
        IN  /\ render' = [NoRender EXCEPT
                             !.op = "UsersPage", !.hasToken = cookie,
                             !.user = user, !.fail1 = failed,
                             !.redirect = r.redirect, !.calls = r.calls]
            /\ UNCHANGED <<backendVars, tracking, mounted, timers,
                           registerState, cookie, tokenValid, authState,
                           optimistic, pathname, navPending, checks, logoutPc,
                           logoutOk, loginSuccess, last>>

\* /users/[userId] is requested and rendered.
UserDetailPageRendered ==
    \E user \in Users, fail1 \in BOOLEAN, fail2 \in BOOLEAN,
       userId \in UserIds :
        LET r == UserDetailPage(cookie, user, fail1, fail2, userId)
        IN  /\ render' = [NoRender EXCEPT
                             !.op = "UserDetailPage", !.hasToken = cookie,
                             !.user = user, !.fail1 = fail1, !.fail2 = fail2,
                             !.userId = userId,
                             !.redirect = r.redirect, !.calls = r.calls]
            /\ UNCHANGED <<backendVars, tracking, mounted, timers,
                           registerState, cookie, tokenValid, authState,
                           optimistic, pathname, navPending, checks, logoutPc,
                           logoutOk, loginSuccess, last>>

\* checkUserPermission(role) is called (NavBar, UsersPage, UserDetailPage).
PermissionChecked ==
    \E role \in Roles, user \in Users, failed \in BOOLEAN :
        /\ render' = [NoRender EXCEPT
                         !.op = "checkUserPermission", !.hasToken = cookie,
                         !.user = user, !.fail1 = failed, !.role = role,
                         !.calls = GetCurrentUser(cookie, user, failed).calls,
                         !.allowed =
                             CheckUserPermission(role, cookie, user, failed)]
        /\ UNCHANGED <<backendVars, tracking, mounted, timers, registerState,
                       cookie, tokenValid, authState, optimistic, pathname,
                       navPending, checks, logoutPc, logoutOk, loginSuccess,
                       last>>

\* The route handler of src/unnamed/part_011 runs for a POST
\* /api/auth/logout.
OlderLogoutServed ==
    \E api \in LogoutCalls(cookie) :
        LET r == PostLogoutOlder(cookie, api)
        IN  /\ cookie' = (cookie /\ ~r.deleted)
            /\ tokenValid' = (cookie' /\ BackendRevokes(r.called, tokenValid, api))
            /\ render' = [NoRender EXCEPT
                             !.op = "olderLogout", !.hasToken = cookie,
                             !.calls = IF r.called THEN {api} ELSE {},
                             !.status = r.status]
            /\ UNCHANGED <<backendVars, tracking, mounted, timers,
                           registerState, authState, optimistic, pathname,
                           navPending, checks, logoutPc, logoutOk,
                           loginSuccess, last>>

ServerNext ==
    \/ ProfilePageRendered
    \/ UsersPageRendered
    \/ UserDetailPageRendered
    \/ PermissionChecked
    \/ OlderLogoutServed
    \/ CookieExpires

\* The server alone, in front of a browser that holds a cookie or not.
ServerInit ==
    /\ Mounted
    /\ pathname = RootPath
    /\ tracking = FALSE
    /\ BackendStarted

ServerSpec == ServerInit /\ [][ServerNext]_vars

----------------------------------------------------------------------------
\* Requests to the backend

\* Time passes.
ClockAdvances ==
    /\ now < MaxTime
    /\ now' = now + 1
    /\ reply' = NoReply
    /\ UNCHANGED <<clientVars, store, lock, cleanAt, keep, returned>>

\* A login request is answered.
LoginRequest(identifier, secret) ==
    /\ reply' = [NoReply EXCEPT
                    !.op = "login",
                    !.result = ServiceLogin(identifier, secret, now).result,
                    !.exp = ServiceLogin(identifier, secret, now).exp]
    /\ UNCHANGED <<clientVars, now, store, lock, cleanAt, keep, returned>>

\* A logout request is answered; its revoke waits for the store's lock.
LogoutRequest(token) ==
    LET r == ServiceLogout(token, store, now)
    IN  /\ Verify(token, now) # "ok" \/ CanEnter
        /\ store' = r.store
        /\ returned' = IF r.revoked THEN returned \cup {token} ELSE returned
        /\ reply' = [NoReply EXCEPT !.op = "logout", !.result = r.result,
                                    !.again = (token \in returned)]
        /\ UNCHANGED <<clientVars, now, lock, cleanAt, keep>>

\* A request carrying a token passes the guard's authenticate; its
\* isRevoked waits for the store's lock.
AuthenticateRequest(token) ==
    /\ Verify(token, now) # "ok" \/ CanEnter
    /\ reply' = [NoReply EXCEPT
                    !.op = "authenticate",
                    !.result = Authenticate(token, store, now)]
    /\ UNCHANGED <<clientVars, now, store, lock, cleanAt, keep, returned>>

\* cleanup(now) of request p takes the lock and finds the entries to keep.
CleanupRead(p) ==
    /\ lock # p
    /\ CanEnter
    /\ lock' = p
    /\ cleanAt' = now
    /\ keep' = Cleanup(store, now)
    /\ reply' = NoReply
    /\ UNCHANGED <<clientVars, now, store, returned>>

\* cleanup(now) of request p leaves the store with the entries it kept and
\* gives the lock back.
CleanupWrite(p) ==
    /\ lock = p
    /\ store' = keep
    /\ lock' = NoProc
    /\ cleanAt' = NoCleanup
    /\ keep' = {}
    /\ reply' = NoReply
    /\ UNCHANGED <<clientVars, now, returned>>

BackendNext ==
    \/ ClockAdvances
    \/ \E identifier \in Identifiers, secret \in Secrets :
          LoginRequest(identifier, secret)
    \/ \E token \in Tokens : LogoutRequest(token)
    \/ \E token \in Tokens : AuthenticateRequest(token)
    \/ \E p \in Procs : CleanupRead(p)
    \/ \E p \in Procs : CleanupWrite(p)

\* The backend alone, in front of a browser that does nothing.
BackendInit ==
    /\ Mounted
    /\ ~cookie
    /\ pathname = RootPath
    /\ tracking = FALSE
    /\ BackendStarted

BackendSpec == BackendInit /\ [][BackendNext]_vars

BackendTypeOK ==
    /\ now \in 0..MaxTime
    /\ store \subseteq [id : Tokens, exp : 0..MaxTime]
    /\ lock \in Procs \cup {NoProc}
    /\ cleanAt \in 0..MaxTime \cup {NoCleanup}
    /\ (lock = NoProc) <=> (cleanAt = NoCleanup)
    /\ keep \subseteq store
    /\ returned \subseteq Tokens
    /\ \A e \in store : e.id.sig = "ok" /\ e.exp = e.id.exp

----------------------------------------------------------------------------
\* The allow-list of the route guard, route by route.
AllowListed == {RootPath, LoginPath, RegisterPath, LoginSubPath}

\* C1: when the logout route handler runs with an auth-token cookie present,
\* the cookie is gone when the handler has answered, whether the backend
\* logout call succeeded or threw.
C1_CookieDeletedByRoute ==
    [][(LogoutServed /\ cookie) => ~cookie']_vars

C1_Witness ==
    /\ last.op = "post"
    /\ last.threw
    /\ logoutPc = "served"
    /\ ~cookie

\* C2: every run of the server action logout() ends with the cookie deleted
\* and a redirect to /login: backend call succeeded, threw, or no token.
C2_ActionDeletesAndRedirects ==
    [][LogoutAction => (~cookie' /\ navPending' = LoginPath)]_vars

C2_Witness ==
    /\ last.op = "logoutAction"
    /\ last.threw
    /\ ~cookie
    /\ navPending = LoginPath

\* C3 as claimed: after every logout() that sent its request the flag is
\* false, also when the request failed or was answered non-OK.
C3_AlwaysEndsUnauthenticated ==
    [][(LogoutDone \/ LogoutNetErr) => ~authState']_vars

\* C3 as amended: a logout() whose request is answered OK ends with the flag
\* false; one whose request fails or is answered non-OK ends with the flag
\* true (the optimistic value is taken back).
C3_EndsByOutcome ==
    [][/\ (LogoutDone /\ logoutOk) => (~authState' /\ ~ContextIsAuthenticated')
       /\ ((LogoutDone /\ ~logoutOk) \/ LogoutNetErr)
             => (authState' /\ ContextIsAuthenticated')]_vars

C3_Witness ==
    /\ last.op = "logoutNetErr"
    /\ authState
    /\ ~cookie

\* C4 as claimed: when the cookie stays present with a token the backend no
\* longer accepts, the periodic status check eventually makes the flag false.
C4_InvalidTokenEventuallyUnauthenticated ==
    []<>(~cookie \/ tokenValid \/ ~authState)

\* C5 as claimed: the answer of a status check that was started before a
\* more recent state change (a later check's answer, a login's setAuth(true),
\* a logout) never changes the flag.
C5_StaleAnswerNeverWrites ==
    [][\A i \in 1..Len(checks) :
          (CheckDone(i) /\ checks[i].stale) => authState' = authState]_vars

\* C6 as claimed: when a periodic check's answer differs from the current
\* flag, the flag becomes the answer, and an unauthenticated answer on a
\* current route outside the allow-list pushes /login.
C6_AdoptsAgainstCurrentFlag ==
    [][\A i \in 1..Len(checks) :
          (CheckDone(i) /\ checks[i].periodic /\ checks[i].answer # authState)
          => /\ authState' = checks[i].answer
             /\ (~checks[i].answer /\ pathname \notin AllowListed)
                   => navPending' = LoginPath]_vars

\* C6 as amended: when a periodic check's answer differs from the flag its
\* callback captured when it was started, the flag becomes the answer, and an
\* unauthenticated answer with a captured route outside the allow-list
\* pushes /login.
C6_AdoptsAgainstCapturedFlag ==
    [][\A i \in 1..Len(checks) :
          (CheckDone(i) /\ checks[i].periodic
                        /\ checks[i].answer # checks[i].captured)
          => /\ authState' = checks[i].answer
             /\ (~checks[i].answer /\ ~checks[i].isPublicRoute)
                   => navPending' = LoginPath]_vars

C6_Witness ==
    /\ last.op = "checkWrote"
    /\ ~authState
    /\ pathname = ProfilePath
    /\ navPending = LoginPath

\* C7: whenever the flag is false on a route outside the allow-list (at
\* mount, or after the flag or the route changed) the guard has pushed
\* /login, and the guard pushes nothing on a route inside the allow-list.
C7_GuardRedirects ==
    /\ (~authState /\ pathname \notin AllowListed) => navPending = LoginPath
    /\ [][(/\ ~authState'
           /\ pathname' \notin AllowListed
           /\ (authState' # authState \/ pathname' # pathname))
          => (navPending' = LoginPath /\ last'.guard)]_vars
    /\ [](last.guard => (~authState /\ pathname \notin AllowListed))

C7_Witness ==
    /\ last.guard
    /\ last.op = "checkWrote"
    /\ ~authState
    /\ pathname = ProfilePath
    /\ navPending = LoginPath

\* C8 as claimed: a logout request that never completes is given up after a
\* bounded period, so the logout in flight, and with it isPending, ends.
C8_LogoutPendingEnds ==
    (logoutPc # "idle") ~> (logoutPc = "idle")

\* C9 as claimed: every logout() that sent its request is eventually
\* followed by a navigation to /login, whatever the outcome of the request.
C9_LogoutAlwaysNavigates ==
    (logoutPc # "idle") ~> (navPending = LoginPath \/ pathname = LoginPath)

\* C9 as amended: a logout() whose request is answered OK pushes /login when
\* the answer arrives; one whose request fails or is answered non-OK pushes
\* nothing.
C9_NavigatesWhenOk ==
    [][/\ (LogoutDone /\ logoutOk) => navPending' = LoginPath
       /\ ((LogoutDone /\ ~logoutOk) \/ LogoutNetErr)
             => navPending' = navPending]_vars

C9_Witness ==
    /\ last.op = "logoutOk"
    /\ navPending = LoginPath
    /\ pathname # LoginPath
    /\ ~authState

\* C10: while the POST request of logout() is out, the isAuthenticated the
\* context exposes is false, and the route handler deletes the cookie only
\* for a request that has been sent.
C10_OptimisticBeforeRequest ==
    /\ [](logoutPc # "idle" => ~ContextIsAuthenticated)
    /\ [][(LogoutServed \/ LogoutServed500)
          => (logoutPc = "sent" /\ ~ContextIsAuthenticated)]_vars
    /\ [][LogoutStart => (cookie' = cookie /\ ~ContextIsAuthenticated')]_vars

C10_Witness ==
    /\ logoutPc = "sent"
    /\ authState
    /\ ~ContextIsAuthenticated
    /\ cookie

\* C11: when a periodic status check fails with a network error, the flag,
\* the value the context exposes, the route and the pending navigation are
\* what they were (the context has no error field: nothing is surfaced), and
\* the interval callback can start the next check.
C11_FailedCheckLeavesState ==
    /\ [][\A i \in 1..Len(checks) :
            (checks[i].periodic /\ Len(checks') < Len(checks) /\ CheckFailed(i))
            => /\ authState' = authState
               /\ ContextIsAuthenticated' = ContextIsAuthenticated
               /\ pathname' = pathname
               /\ navPending' = navPending
               /\ cookie' = cookie]_vars
    /\ [](last.op = "periodicFailed" => ENABLED Tick)

C11_Witness ==
    /\ last.op = "periodicFailed"
    /\ authState
    /\ ~cookie
    /\ pathname = ProfilePath

\* C12: right after a login that returned success a status check answers
\* true; right after a logout completed by the route handler (its answer is
\* OK) or by the server action it answers false; the answer goes from false
\* to true by a successful login only, so it stays false until the next one;
\* and a check in flight is answered with that answer.
C12_StatusFollowsLoginLogout ==
    [][/\ (~loginSuccess /\ loginSuccess')
             => StatusAnswer(cookie', tokenValid')
       /\ ((logoutPc = "sent" /\ logoutPc' = "served" /\ logoutOk')
              \/ last'.op = "logoutAction")
             => ~StatusAnswer(cookie', tokenValid')
       /\ (~StatusAnswer(cookie, tokenValid)
              /\ StatusAnswer(cookie', tokenValid'))
             => (~loginSuccess /\ loginSuccess')
       /\ \A i \in 1..Len(checks) :
             (Len(checks') = Len(checks) /\ ~checks[i].served
                                         /\ CheckServed(i))
             => checks'[i].answer = StatusAnswer(cookie, tokenValid)]_vars

C12_Witness ==
    /\ loginSuccess
    /\ cookie
    /\ ~authState
    /\ Len(checks) > 0
    /\ checks[1].served
    /\ ~checks[1].answer

\* C13 as claimed: a freshly mounted session client is in a third state,
\* neither authenticated nor unauthenticated, and the route guard has issued
\* no redirect before the first status check is answered.
C13_StartsUnknown ==
    last.op = "mount" => (authState \notin BOOLEAN /\ navPending = NoNav)

\* C13 as amended: the flag is a boolean at all times; a freshly mounted
\* client holds the answer of the root layout's server-side status check
\* (cookie present or not) while its first own check is still unanswered,
\* and the route guard has already run with that value: it has pushed /login
\* exactly when the flag is false on a route outside the allow-list.
C13_StartsDetermined ==
    /\ authState \in BOOLEAN
    /\ last.op = "mount"
         => /\ authState = cookie
            /\ Len(checks) = 1 /\ ~checks[1].served
            /\ (navPending = LoginPath)
                 <=> (~authState /\ pathname \notin AllowListed)
            /\ navPending \in {LoginPath, NoNav}

C13_Witness ==
    /\ last.op = "mount"
    /\ ~authState
    /\ pathname = ProfilePath
    /\ navPending = LoginPath
    /\ ~checks[1].served

\* C14: the login action sets the cookie and returns success exactly when
\* the form data is valid and the backend call returns token data; in every
\* other case (validation failure, response without data, thrown error) it
\* returns an error message without success and the cookie is what it was.
C14_LoginSetsCookieOnData ==
    [][(pathname = LoginPath /\ ~loginSuccess /\ checks' = checks)
       => \A valid \in BOOLEAN :
             \A backend \in LoginCalls(valid) :
                LoginActionWith(valid, backend)
                => IF valid /\ backend = "data"
                   THEN /\ cookie' /\ tokenValid' /\ loginSuccess'
                        /\ ActionLogin(valid, backend).error = "null"
                   ELSE /\ cookie' = cookie /\ tokenValid' = tokenValid
                        /\ ~loginSuccess'
                        /\ ActionLogin(valid, backend).error # "null"]_vars

C14_Witness ==
    /\ loginSuccess
    /\ pathname = LoginPath
    /\ cookie
    /\ tokenValid
    /\ last = NoLast

\* C15: the logout route handler answers 200 whenever the cookie store
\* works, whatever the backend logout call did (success, error answer,
\* exception); a logout request is answered non-OK only by the handler's
\* outer catch, after the cookie store threw, and then the cookie stays.
C15_RouteAnswers200 ==
    [][/\ LogoutServed => (logoutOk' /\ logoutPc' = "served")
       /\ LogoutServed500 => (~logoutOk' /\ cookie' = cookie)
       /\ (logoutPc = "sent" /\ logoutPc' = "served" /\ ~logoutOk')
             => LogoutServed500]_vars

C15_Witness ==
    /\ last.op = "post"
    /\ last.threw
    /\ logoutPc = "served"
    /\ logoutOk

\* C16 as claimed: once revoke has returned for a token, every later
\* authenticate of that token is answered Unauthenticated.
C16_RevokedNeverAuthenticates ==
    [][\A token \in returned :
          AuthenticateRequest(token) => reply'.result = "Unauthenticated"]_vars

\* C17: cleanup(now) removes every entry whose recorded expiry is before
\* now and keeps every entry whose recorded expiry is after now.
C17_CleanupByExpiry ==
    [][\A p \in Procs :
          CleanupWrite(p)
          => \A e \in store :
                /\ e.exp < cleanAt => e \notin store'
                /\ e.exp > cleanAt => e \in store']_vars

C17_Witness ==
    /\ \E e \in store : e.exp > now
    /\ \E token \in returned : token.exp < now /\ ~IsRevoked(store, token)
    /\ lock = NoProc

\* C18: a logout of a token that has been logged out before is answered
\* with success, and the token is unusable afterwards: authenticate refuses
\* it.
C18_SecondLogoutSucceeds ==
    [][\A token \in returned :
          LogoutRequest(token)
          => /\ reply'.result = "ok"
             /\ Authenticate(token, store', now') = "Unauthenticated"
             /\ IsRevoked(store, token) => store' = store]_vars

C18_Witness ==
    /\ reply.op = "logout"
    /\ reply.again
    /\ reply.result = "ok"
    /\ \E token \in returned : IsRevoked(store, token) /\ now < token.exp
    /\ Cardinality(returned) = 1
    /\ Cardinality(store) = 1

\* C19: under every interleaving of logout (revoke), authenticate
\* (isRevoked) and cleanup requests, a token for which revoke has returned
\* is in the store as long as its expiry is after now.
C19_NoRevokeLost ==
    \A token \in returned : now < token.exp => IsRevoked(store, token)

C19_Witness ==
    /\ lock \in Procs /\ cleanAt = now
    /\ \E token \in returned : now < token.exp
    /\ \E token \in returned : token.exp <= now

\* C20: a login with a registered identifier and a wrong secret and a login
\* with an identifier that is not registered get the same answer, the
\* InvalidCredentials failure, field by field.
C20_SameFailure ==
    [][\A identifier \in Identifiers, secret \in Secrets :
          (LoginRequest(identifier, secret)
             /\ ~(identifier = "alice" /\ secret = "Passw0rd"))
          => reply' = [op |-> "login", result |-> "InvalidCredentials",
                       exp |-> 0, again |-> FALSE]]_vars

C20_Witness ==
    /\ reply.op = "login"
    /\ reply.result = "InvalidCredentials"

\* C21 as claimed: the register action and the form's effect leave the
\* cookie and the flag alone; a registration the backend accepted makes the
\* form push /login; a registration that failed (validation, an error
\* answer of the backend, a thrown error) causes no navigation.
C21_RegisterNavigatesOnSuccessOnly ==
    [][(pathname = RegisterPath /\ registerState' # registerState)
       => /\ cookie' = cookie /\ authState' = authState
          /\ (RegisterEffect /\ registerState.created)
                => navPending' = LoginPath
          /\ (RegisterEffect /\ ~registerState.created)
                => navPending' = navPending]_vars

\* The three pages behind the server-side status check.
GuardedPages == {"ProfilePage", "UsersPage", "UserDetailPage"}

\* C22: a render of ProfilePage, UsersPage or UserDetailPage for a request
\* without the auth-token cookie redirects to /login and makes no call that
\* fetches user data.
C22_PagesRedirectWithoutCookie ==
    (render.op \in GuardedPages /\ ~render.hasToken)
    => (render.redirect = LoginPath /\ render.calls = {})

C22_Witness ==
    /\ render.op = "ProfilePage"
    /\ ~render.hasToken
    /\ render.redirect = LoginPath
    /\ ~cookie

\* C23: logout() is started with the flag true and its optimistic update
\* leaves the store alone; when the request fails (a non-OK answer or a
\* rejected fetch) the logout ends with the flag true again, the value it
\* had before the optimistic update, also when a status check that completed
\* during the request had made it false.
C23_FailedLogoutRestoresFlag ==
    /\ last.op = "logoutStart"
         => (authState /\ ~ContextIsAuthenticated /\ logoutPc = "sent")
    /\ last.op \in {"logoutNotOk", "logoutNetErr"}
         => (authState /\ ContextIsAuthenticated /\ logoutPc = "idle")

C23_Witness ==
    /\ last.op = "logoutNotOk"
    /\ authState
    /\ Len(checks) > 0
    /\ checks[Len(checks)].captured
    /\ ~checks[Len(checks)].periodic
    /\ ~checks[Len(checks)].served

\* C24: while a logout request is out the provider is pending and a
\* logout() invocation sends nothing: at most one logout request is in
\* flight.
C24_OneLogoutInFlight ==
    logoutPc # "idle" => (IsPending /\ ~ENABLED LogoutStart)

C24_Witness ==
    /\ logoutPc = "served"
    /\ authState
    /\ Len(checks) = 0
    /\ pathname = ProfilePath

\* C25 as claimed: whenever no logout request is in flight, a click on the
\* logout button the NavBar shows sends the POST request, also while a
\* status check is pending.
C25_LogoutAlwaysSends ==
    (mounted /\ logoutPc = "idle" /\ ContextIsAuthenticated)
    => ENABLED LogoutStart

\* C26: at every moment at most one interval timer of the status effect is
\* active (exactly one while the provider is mounted, across the re-runs of
\* the effect after flag and route changes, none after teardown), and after
\* teardown no status check is started: the interval callback cannot fire
\* and no step adds a check to those in flight.
C26_OneTimerNoneAfterTeardown ==
    /\ [](/\ timers <= 1
          /\ mounted => timers = 1
          /\ ~mounted => (timers = 0 /\ ~ENABLED Tick))
    /\ [][~mounted => Len(checks') <= Len(checks)]_vars

C26_Witness ==
    /\ ~mounted
    /\ timers = 0
    /\ last.op = "checkWrote"
    /\ Len(checks) = 0
    /\ pathname = ProfilePath

\* C27: if from some point on the cookie stays present, or stays absent,
\* and from some point on no status check fails, then from some point on the
\* flag equals the cookie's presence for good.
C27_FlagConvergesToCookie ==
    /\ (<>[]cookie
          /\ <>[][~(\E i \in 1..Len(checks) : CheckFailed(i))]_vars)
         => <>[]authState
    /\ (<>[](~cookie)
          /\ <>[][~(\E i \in 1..Len(checks) : CheckFailed(i))]_vars)
         => <>[](~authState)

C27_Witness ==
    /\ last.op = "checkWrote"
    /\ ~authState
    /\ ~cookie
    /\ Len(checks) = 1
    /\ ~checks[1].captured
    /\ ~checks[1].periodic

\* C28 as claimed: whenever the logout route handler of
\* src/unnamed/part_011 has run, the auth-token cookie is gone, whether the
\* backend logout call succeeded, answered with an error or threw.
C28_OlderRouteRemovesCookie ==
    [][OlderLogoutServed => ~cookie']_vars

\* C29: when UserDetailPage calls getUserById (readUser) for the userId of
\* the route, the request carries the cookie and the current user is a
\* superuser, has the role admin, or has the id userId; a fetch of another
\* user's details is made for the admin permission only, found by a
\* current-user fetch that succeeded.
C29_DetailOnlyForAdminOrSelf ==
    (render.op = "UserDetailPage" /\ "readUser" \in render.calls)
    => /\ render.hasToken
       /\ \/ render.user.is_superuser
          \/ render.user.role = "admin"
          \/ render.user.id = render.userId
       /\ render.user.id # render.userId
            => /\ ~render.fail1
               /\ render.user.is_superuser \/ render.user.role = "admin"

C29_Witness ==
    /\ render.op = "UserDetailPage"
    /\ "readUser" \in render.calls
    /\ render.user.role = "user"
    /\ ~render.user.is_superuser
    /\ render.user.id = render.userId
    /\ render.fail1

\* C30: for every current user and every outcome of the current-user
\* fetch, the permission for admin implies the permission for user, which
\* implies the permission for guest; a superuser whose fetch succeeded has
\* every permission; and without the cookie, or when the fetch fails, every
\* permission is refused.
C30_PermissionMonotoneFailClosed ==
    render.op = "checkUserPermission"
    => /\ render.allowed
            = CheckUserPermission(render.role, render.hasToken, render.user,
                                  render.fail1)
       /\ CheckUserPermission("admin", render.hasToken, render.user,
                              render.fail1)
            => CheckUserPermission("user", render.hasToken, render.user,
                                   render.fail1)
       /\ CheckUserPermission("user", render.hasToken, render.user,
                              render.fail1)
            => CheckUserPermission("guest", render.hasToken, render.user,
                                   render.fail1)
       /\ (render.hasToken /\ ~render.fail1 /\ render.user.is_superuser)
            => render.allowed
       /\ (~render.hasToken \/ render.fail1) => ~render.allowed
       /\ (render.allowed /\ render.role = "admin")
            => (render.user.is_superuser \/ render.user.role = "admin")

C30_Witness ==
    /\ render.op = "checkUserPermission"
    /\ render.role = "user"
    /\ render.user.role = "admin"
    /\ ~render.user.is_superuser
    /\ render.allowed

====
